---- MODULE Spec2Model ----
(***************************************************************************)
(* A model of the live HLS publisher of hls.go: one writer (WriteHeader,   *)
(* WritePacket, Discontinuity, Close) and HTTP readers (ServeHTTP) that    *)
(* meet only in the atomically stored snapshot `state`.                    *)
(*                                                                         *)
(* Time is counted in ticks, Second ticks to the second.  Segments live in *)
(* a heap `segs` (a sequence of records); a *segment of the code is an     *)
(* index into it and 0 is the nil pointer.  The type segment itself is not *)
(* part of hls.go: its methods are modelled from their call sites and the  *)
(* lifecycle Created -> Active -> Finalized -> Released.                   *)
(***************************************************************************)
EXTENDS Integers, Sequences, FiniteSets

\* ------------------------------------------------------------------ bounds

\* keyframe packets one run passes to WritePacket
MaxKey == 12
\* calls of one run that are not a plain packet: a long gap between two
\* keyframes, a Discontinuity, a failing muxer or store
MaxSpecial == 2
\* keyframe packets, special calls and requests of a run with readers
MaxServeKey == 11
MaxServeSpecial == 1
MaxReads == 1
\* special calls of a run whose caller goes on passing keyframes
MaxLiveSpecial == 1
\* what time.Now().UnixNano() answers when segNum is seeded
Epoch == 100

\* ------------------------------------------------------- program constants

\* time.Second, in ticks
Second == 4
\* trimSegments: goalLen when BufferLength is 0, in seconds
DefaultBufferSeconds == 60
\* trimSegments: the floor of keepSegments
MinKeepSegments == 10
\* targetDuration: the last fallback, in seconds
DefaultTargetSeconds == 5

\* the nil *segment
Nil == 0

\* The publisher options the runs are made with: InitialDuration and
\* BufferLength in ticks.
Configs ==
  { [InitialDuration |-> 0, BufferLength |-> 10 * Second, Precreate |-> 1, Prefetch |-> TRUE],
    [InitialDuration |-> 3, BufferLength |-> 10 * Second, Precreate |-> 2, Prefetch |-> TRUE],
    [InitialDuration |-> 0, BufferLength |-> 0, Precreate |-> 0, Prefetch |-> FALSE] }

\* The gap between two keyframe packets: ShortGap, or one of LongGaps (a
\* special call).
ShortGap == Second \div 4
LongGaps == {Second + 1, 6 * Second}

Errors == {"MuxError", "WriteError", "AllocError"}

\* ------------------------------------------------------------------ state

VARIABLES
  cfg,        \* the exported fields of Publisher
  segments,   \* p.segments: heap indices, oldest first
  presegs,    \* p.presegs
  segNum,     \* p.segNum
  seq,        \* p.seq
  dcn,        \* p.dcn
  dcnseq,     \* p.dcnseq
  state,      \* p.state: the stored hlsState
  current,    \* p.current, Nil when unset
  muxHdr,     \* p.muxHdr is set
  segs,       \* the heap of segment objects
  wpc,        \* where the writer is
  initialDur, \* newSegment's local initialDur, of the latest call that activated
  op,         \* the writer's latest call
  ret,        \* and what it returned
  clock,      \* Time of the latest keyframe packet
  keys,       \* keyframe packets still to come
  special,    \* special calls still to come
  reads,      \* requests still to come
  resp        \* the reader's latest request and response

pub == <<segments, presegs, segNum, seq, dcn, dcnseq, state, current, segs>>
vars == <<cfg, segments, presegs, segNum, seq, dcn, dcnseq, state, current, muxHdr,
          segs, wpc, initialDur, op, ret, clock, keys, special, reads, resp>>

\* ------------------------------------------------------------- helpers

Range(s) == {s[i] : i \in DOMAIN s}

\* time.Duration.Round(m): to the nearest multiple of m, halves away from zero
RoundPos(d, m) ==
  LET r == d % m IN IF r + r < m THEN d - r ELSE d + m - r

Round(d, m) == IF d < 0 THEN 0 - RoundPos(0 - d, m) ELSE RoundPos(d, m)

\* the one element of a set of one: {F(x) : x \in {e}} works e out once and
\* hands F its value
Only(S) == CHOOSE x \in S : TRUE

\* int(d.Seconds()) of a duration that is not negative
Seconds(d) == d \div Second

\* ---------------------------------------------------------- the segment

\* newSegment(segNum, header, workDir): a header-only segment
NewSeg(num) ==
  [name |-> num, activated |-> FALSE, final |-> FALSE, released |-> FALSE,
   releases |-> 0, start |-> 0, dur |-> 0, dcn |-> FALSE]

\* (*segment).activate(start, initialDur, dcn)
activate(s, start, idur, d) ==
  [s EXCEPT !.activated = TRUE, !.start = start, !.dur = idur, !.dcn = d]

\* (*segment).Finalize(nextSegment)
Finalize(s, next) == [s EXCEPT !.dur = next - s.start, !.final = TRUE]

\* (*segment).Release(); releases counts the calls
Release(s) == [s EXCEPT !.released = TRUE, !.releases = @ + 1]

\* the name of the playlist, and segment.name
IndexName == <<"index.m3u8">>
SegName(s) == <<"seg", s.name>>

\* (*segment).Format(prefetch): the lines of the segment's playlist entry
Format(s, prefetch) ==
  IF s.final
    THEN (IF s.dcn THEN << <<"DISCONTINUITY">> >> ELSE << >>)
         \o << <<"EXTINF", s.dur>>, <<"URI", s.name>> >>
    ELSE IF prefetch
      THEN (IF s.dcn THEN << <<"PREFETCH-DISCONTINUITY">> >> ELSE << >>)
           \o << <<"PREFETCH", s.name>> >>
      ELSE << >>

\* ------------------------------------------------------- the publisher

\* The fields of the Publisher the writer works on, as one value.
P ==
  [segments |-> segments, presegs |-> presegs, segNum |-> segNum, seq |-> seq,
   dcn |-> dcn, dcnseq |-> dcnseq, state |-> state, current |-> current,
   segs |-> segs]

Install(q) ==
  /\ segments' = q.segments
  /\ presegs' = q.presegs
  /\ segNum' = q.segNum
  /\ seq' = q.seq
  /\ dcn' = q.dcn
  /\ dcnseq' = q.dcnseq
  /\ state' = q.state
  /\ current' = q.current
  /\ segs' = q.segs

\* Load() before any Store, and the hlsState{} that Close stores
NoState == [stored |-> FALSE, playlist |-> << >>, segments |-> << >>]
EmptyState == [stored |-> TRUE, playlist |-> << >>, segments |-> << >>]

SetMax(S) == CHOOSE x \in S : \A y \in S : y <= x

\* targetDuration whose loop stops before the newest segment of the window
targetDurationShort(q) ==
  LET maxTime == SetMax({0} \cup {q.segs[q.segments[k]].dur :
                                    k \in 1..(Len(q.segments) - 1)})
      rounded == Round(maxTime, Second)
      guess == IF rounded = 0 THEN cfg.InitialDuration ELSE rounded
  IN  IF guess = 0 THEN DefaultTargetSeconds * Second ELSE guess

\* targetDuration: the longest dur of the window, rounded, with its fallbacks
targetDuration(q) ==
  LET maxTime == SetMax({0} \cup {q.segs[i].dur : i \in Range(q.segments)})
      rounded == Round(maxTime, Second)
      guess == IF rounded = 0 THEN cfg.InitialDuration ELSE rounded
  IN  IF guess = 0 THEN DefaultTargetSeconds * Second ELSE guess

\* keepSegments without its floor
KeepSegmentsUnfloored(segmentLen) ==
  LET goalLen == IF cfg.BufferLength = 0 THEN DefaultBufferSeconds * Second
                 ELSE cfg.BufferLength
  IN  (goalLen + segmentLen - 1) \div segmentLen + 1

\* trimSegments: keepSegments for a segment length
KeepSegments(segmentLen) ==
  LET goalLen == IF cfg.BufferLength = 0 THEN DefaultBufferSeconds * Second
                 ELSE cfg.BufferLength
      keep == (goalLen + segmentLen - 1) \div segmentLen + 1
  IN  IF keep < MinKeepSegments THEN MinKeepSegments ELSE keep

\* the eviction that counts a discontinuity for every segment it drops
EvictAllDcn(q, n) ==
  LET old == {q.segments[i] : i \in 1..n} IN
  [q EXCEPT !.seq = @ + n,
            !.dcnseq = @ + n,
            !.segs = [j \in DOMAIN q.segs |->
                        IF j \in old THEN Release(q.segs[j]) ELSE q.segs[j]],
            !.segments = SubSeq(q.segments, n + 1, Len(q.segments))]

\* trimSegments, lines 183-190: the n oldest segments leave the window
Evict(q, n) ==
  LET old == {q.segments[i] : i \in 1..n} IN
  [q EXCEPT !.seq = @ + n,
            !.dcnseq = @ + Cardinality({i \in 1..n : q.segs[q.segments[i]].dcn}),
            !.segs = [j \in DOMAIN q.segs |->
                        IF j \in old THEN Release(q.segs[j]) ELSE q.segs[j]],
            !.segments = SubSeq(q.segments, n + 1, Len(q.segments))]

\* trimSegments that never evicts
trimSegmentsNever(q, segmentLen) == q

\* trimSegments that keeps one segment too many
trimSegmentsLate(q, segmentLen) ==
  LET n == Len(q.segments) - KeepSegments(segmentLen) IN
  IF n <= 1 THEN q ELSE Evict(q, n - 1)

\* trimSegments
trimSegments(q, segmentLen) ==
  LET n == Len(q.segments) - KeepSegments(segmentLen) IN
  IF n <= 0 THEN q ELSE Evict(q, n)

\* the finalization that ends every segment of the window at start
FinalizeWindow(q, start) ==
  [q EXCEPT !.segs = [j \in DOMAIN q.segs |->
                        IF j \in Range(q.segments) THEN Finalize(q.segs[j], start)
                        ELSE q.segs[j]]]

\* newSegment, lines 99-101: the segment that was current ends at start
FinalizeCurrent(q, start) ==
  IF q.current # Nil
    THEN [q EXCEPT !.segs[q.current] = Finalize(@, start)]
    ELSE q

\* newSegment, lines 103-105
SeedSegNum(q) == IF q.segNum = 0 THEN [q EXCEPT !.segNum = Epoch] ELSE q

\* the take that pops the newest precreated segment
TakeSegmentNewest(q, allocOK) ==
  IF Len(q.presegs) # 0
    THEN [q EXCEPT !.current = q.presegs[Len(q.presegs)],
                   !.presegs = SubSeq(q.presegs, 1, Len(q.presegs) - 1)]
    ELSE IF allocOK
      THEN [q EXCEPT !.segs = Append(@, NewSeg(q.segNum)),
                     !.current = Len(q.segs) + 1]
      ELSE [q EXCEPT !.current = Nil]

\* the take that shifts presegs (line 109) and does not shorten it (line 110)
TakeSegmentUntruncated(q, allocOK) ==
  IF Len(q.presegs) # 0
    THEN [q EXCEPT !.current = Head(q.presegs),
                   !.presegs = Tail(q.presegs) \o <<q.presegs[Len(q.presegs)]>>]
    ELSE IF allocOK
      THEN [q EXCEPT !.segs = Append(@, NewSeg(q.segNum)),
                     !.current = Len(q.segs) + 1]
      ELSE [q EXCEPT !.current = Nil]

\* newSegment, lines 106-117: the oldest precreated segment, or a new one;
\* current is nil when the allocation fails
TakeSegment(q, allocOK) ==
  IF Len(q.presegs) # 0
    THEN [q EXCEPT !.current = Head(q.presegs), !.presegs = Tail(q.presegs)]
    ELSE IF allocOK
      THEN [q EXCEPT !.segs = Append(@, NewSeg(q.segNum)),
                     !.current = Len(q.segs) + 1]
      ELSE [q EXCEPT !.current = Nil]

\* the activation that leaves the pending discontinuity set
ActivateCurrentKeepDcn(q, start, idur) ==
  [q EXCEPT !.segs[q.current] = activate(@, start, idur, q.dcn),
            !.segNum = @ + 1,
            !.segments = Append(@, q.current)]

\* newSegment, lines 118-122
ActivateCurrent(q, start, idur) ==
  [q EXCEPT !.segs[q.current] = activate(@, start, idur, q.dcn),
            !.dcn = FALSE,
            !.segNum = @ + 1,
            !.segments = Append(@, q.current)]

RECURSIVE FormatAll(_, _, _)
FormatAll(h, list, prefetch) ==
  IF list = << >> THEN << >>
  ELSE Format(h[Head(list)], prefetch) \o FormatAll(h, Tail(list), prefetch)

\* the playlist that numbers anew once a discontinuity has left the window
BuildPlaylistRenumbered(q, idur) ==
  << <<"EXTM3U">>, <<"VERSION", 3>>, <<"TARGETDURATION", Seconds(idur)>>,
     <<"MEDIA-SEQUENCE", IF q.dcnseq # 0 THEN 0 ELSE q.seq>> >>
  \o (IF q.dcnseq # 0 THEN << <<"DISCONTINUITY-SEQUENCE", q.dcnseq>> >> ELSE << >>)
  \o FormatAll(q.segs, q.segments \o q.presegs, cfg.Prefetch)

\* newSegment, lines 125-136: the playlist, line by line
BuildPlaylist(q, idur) ==
  << <<"EXTM3U">>, <<"VERSION", 3>>, <<"TARGETDURATION", Seconds(idur)>>,
     <<"MEDIA-SEQUENCE", q.seq>> >>
  \o (IF q.dcnseq # 0 THEN << <<"DISCONTINUITY-SEQUENCE", q.dcnseq>> >> ELSE << >>)
  \o FormatAll(q.segs, q.segments \o q.presegs, cfg.Prefetch)

\* the snapshot whose list leaves out the precreated segments
PublishStateWindow(q, idur) ==
  [q EXCEPT !.state = [stored |-> TRUE,
                       playlist |-> BuildPlaylist(q, idur),
                       segments |-> q.segments]]

\* newSegment, lines 124-138: store the snapshot
PublishState(q, idur) ==
  [q EXCEPT !.state = [stored |-> TRUE,
                       playlist |-> BuildPlaylist(q, idur),
                       segments |-> q.segments \o q.presegs]]

\* the refill that does not advance segNum
RECURSIVE PrecreateSameNum(_, _)
PrecreateSameNum(q, n) ==
  IF Len(q.presegs) >= cfg.Precreate \/ n = 0 THEN q
  ELSE Only({PrecreateSameNum(x, n - 1) :
               x \in {[q EXCEPT !.segs = Append(@, NewSeg(q.segNum)),
                                !.presegs = Append(@, Len(q.segs) + 1)]}})

\* newSegment, lines 140-147: fill presegs, while at most n allocations succeed
RECURSIVE Precreate(_, _)
Precreate(q, n) ==
  IF Len(q.presegs) >= cfg.Precreate \/ n = 0 THEN q
  ELSE Only({Precreate(x, n - 1) :
               x \in {[q EXCEPT !.segs = Append(@, NewSeg(q.segNum)),
                                !.presegs = Append(@, Len(q.segs) + 1),
                                !.segNum = @ + 1]}})

\* newSegment, lines 113-123, with current taken: the error of a failed
\* allocation, or the segment activated and the window trimmed
ActivateAndTrim(q, start, idur) ==
  IF q.current = Nil
    THEN [q |-> q, err |-> "AllocError", idur |-> idur]
    ELSE [q |-> Only({trimSegments(a, idur) : a \in {ActivateCurrent(q, start, idur)}}),
          err |-> "nil", idur |-> idur]

\* newSegment, lines 102-123, with the old segment finalized
EstimateAndTake(q, start, allocOK) ==
  Only({ActivateAndTrim(t, start, idur) :
          t \in {TakeSegment(SeedSegNum(q), allocOK)}, idur \in {targetDuration(q)}})

\* newSegment up to trimSegments (lines 99-123): the publisher, the error and
\* initialDur
NewSegmentTrim(q, start, allocOK) ==
  Only({EstimateAndTake(f, start, allocOK) : f \in {FinalizeCurrent(q, start)}})

\* newSegment, lines 142-148: the error of a failed precreation
PrecreateResult(q, idur) ==
  [q |-> q, idur |-> idur,
   err |-> IF Len(q.presegs) < cfg.Precreate THEN "AllocError" ELSE "nil"]

\* newSegment from the playlist on (lines 124-148)
NewSegmentRest(q, idur, n) ==
  Only({PrecreateResult(f, idur) :
          f \in {Precreate(p, n) : p \in {PublishState(q, idur)}}})

\* newSegment, line 114-116: return on the failed allocation, or go on
NewSegmentThen(r, n) ==
  IF r.err # "nil" THEN r ELSE NewSegmentRest(r.q, r.idur, n)

\* newSegment
newSegment(q, start, allocOK, n) ==
  Only({NewSegmentThen(r, n) : r \in {NewSegmentTrim(q, start, allocOK)}})

\* the packet muxed and written without the test of current
MuxAndWriteUnguarded(q, io) == io

\* WritePacket, lines 75-89: what the call returns once newSegment is through
MuxAndWrite(q, io) == IF q.current = Nil THEN "nil" ELSE io

\* Close that forgets the Store of the empty state
CloseStateKept(q) == q

\* Close
CloseState(q) == [q EXCEPT !.state = EmptyState]

\* the release that leaves current set
CloseReleaseKeepCurrent(q) ==
  [q EXCEPT !.segs = [j \in DOMAIN q.segs |->
                        IF j \in Range(q.segments) \cup Range(q.presegs)
                          THEN Release(q.segs[j]) ELSE q.segs[j]],
            !.segments = << >>,
            !.presegs = << >>]

\* Close, lines 218-226
CloseRelease(q) ==
  [q EXCEPT !.current = Nil,
            !.segs = [j \in DOMAIN q.segs |->
                        IF j \in Range(q.segments) \cup Range(q.presegs)
                          THEN Release(q.segs[j]) ELSE q.segs[j]],
            !.segments = << >>,
            !.presegs = << >>]

\* ServeHTTP, lines 206-212: the first segment of the snapshot named bn
Lookup(st, h, bn) ==
  LET hits == {i \in DOMAIN st.segments : SegName(h[st.segments[i]]) = bn} IN
  IF hits = {} THEN Nil
  ELSE st.segments[CHOOSE i \in hits : \A j \in hits : i <= j]

NoResp == [bn |-> << >>, code |-> "none", body |-> << >>, seg |-> Nil,
           gone |-> FALSE, closed |-> FALSE]

\* ServeHTTP: the response to a request for bn
Respond(st, h, bn) ==
  IF ~st.stored
    THEN [NoResp EXCEPT !.bn = bn, !.code = "404"]
  ELSE IF bn = IndexName
    THEN [NoResp EXCEPT !.bn = bn, !.code = "200", !.body = st.playlist]
  ELSE LET s == Lookup(st, h, bn) IN
    IF s = Nil THEN [NoResp EXCEPT !.bn = bn, !.code = "404"]
    ELSE [NoResp EXCEPT !.bn = bn, !.code = "segment", !.seg = s,
                        !.gone = h[s].released]

\* ------------------------------------------------------------ the writer

Fails == {"none", "alloc", "precreate", "MuxError", "WriteError"}

Gaps == {ShortGap} \cup LongGaps

\* WriteHeader: the muxer accepts the streams, or not
WriteHeader(ok) ==
  /\ wpc = "idle"
  /\ ~muxHdr
  /\ muxHdr' = ok
  /\ op' = "WriteHeader"
  /\ ret' = IF ok THEN "nil" ELSE "MuxError"
  /\ UNCHANGED <<pub, cfg, wpc, initialDur, clock, keys, special, reads, resp>>

\* WritePacket of a packet that is no keyframe (lines 75-89)
WriteDelta(io) ==
  /\ wpc = "idle"
  /\ muxHdr
  /\ io \in {"nil", "MuxError", "WriteError"}
  /\ io # "nil" => special > 0
  /\ op' = "WritePacket"
  /\ ret' = MuxAndWrite(P, io)
  /\ special' = IF MuxAndWrite(P, io) # "nil" THEN special - 1 ELSE special
  /\ UNCHANGED <<pub, cfg, muxHdr, wpc, initialDur, clock, keys, reads, resp>>

\* WritePacket, lines 70-89: what the keyframe's call returns
KeyResult(r, fail) ==
  IF r.err # "nil" THEN r.err
  ELSE MuxAndWrite(r.q, IF fail \in Errors THEN fail ELSE "nil")

\* the special calls a keyframe packet counts for
KeyCost(gap, fail) ==
  (IF gap # ShortGap THEN 1 ELSE 0) + (IF fail # "none" THEN 1 ELSE 0)

\* WritePacket of a keyframe at start, where newSegment yields r and the call
\* returns result
WriteKeyDone(start, fail, cost, r, result) ==
  /\ fail # "none" => result # "nil"
  /\ Install(r.q)
  /\ initialDur' = IF r.q.current # Nil THEN r.idur ELSE initialDur
  /\ op' = "WritePacket"
  /\ ret' = result
  /\ clock' = start
  /\ keys' = keys - 1
  /\ special' = special - cost
  /\ UNCHANGED <<cfg, muxHdr, wpc, reads, resp>>

WriteKeyWith(start, fail, cost, r) ==
  WriteKeyDone(start, fail, cost, r, KeyResult(r, fail))

\* WritePacket of a keyframe gap after the last one; fail names what fails
WriteKey(gap, fail) ==
  /\ wpc = "idle"
  /\ muxHdr
  /\ keys > 0
  /\ KeyCost(gap, fail) <= special
  /\ fail = "alloc" => presegs = << >>
  /\ fail = "precreate" => cfg.Precreate > 0
  /\ \E r \in {newSegment(P, clock + gap, fail # "alloc",
                            IF fail = "precreate" THEN 0 ELSE cfg.Precreate)} :
       WriteKeyWith(clock + gap, fail, KeyCost(gap, fail), r)

\* Discontinuity
Discontinuity ==
  /\ wpc = "idle"
  /\ special > 0
  /\ dcn' = TRUE
  /\ op' = "Discontinuity"
  /\ ret' = "nil"
  /\ special' = special - 1
  /\ UNCHANGED <<cfg, segments, presegs, segNum, seq, dcnseq, state, current, segs,
                 muxHdr, wpc, initialDur, clock, keys, reads, resp>>

\* Close
Close ==
  /\ wpc \in {"idle", "closed"}
  /\ Install(CloseRelease(CloseState(P)))
  /\ wpc' = "closed"
  /\ op' = "Close"
  /\ ret' = "nil"
  /\ UNCHANGED <<cfg, muxHdr, initialDur, clock, keys, special, reads, resp>>

\* ------------------------------------- the writer, one step at a time

KeyTrimWith(start, cost, r) ==
  /\ Install(r.q)
  /\ initialDur' = IF r.err = "nil" THEN r.idur ELSE initialDur
  /\ wpc' = IF r.err = "nil" THEN "publish" ELSE "idle"
  /\ op' = "WritePacket"
  /\ ret' = r.err
  /\ clock' = start
  /\ keys' = keys - 1
  /\ special' = special - cost
  /\ UNCHANGED <<cfg, muxHdr, reads, resp>>

\* WritePacket of a keyframe, as far as trimSegments (lines 70-71, 99-123)
KeyTrim(gap, allocOK) ==
  /\ wpc = "idle"
  /\ muxHdr
  /\ keys > 0
  /\ KeyCost(gap, IF allocOK THEN "none" ELSE "alloc") <= special
  /\ ~allocOK => presegs = << >>
  /\ KeyTrimWith(clock + gap, KeyCost(gap, IF allocOK THEN "none" ELSE "alloc"),
                 NewSegmentTrim(P, clock + gap, allocOK))

\* p.state.Store of the new snapshot (lines 124-138)
KeyStore ==
  /\ wpc = "publish"
  /\ Install(PublishState(P, initialDur))
  /\ wpc' = "precreate"
  /\ UNCHANGED <<cfg, muxHdr, initialDur, op, ret, clock, keys, special, reads, resp>>

KeyFinishWith(fail, r, result) ==
  /\ fail # "none" => special > 0 /\ result # "nil"
  /\ Install(r.q)
  /\ wpc' = "idle"
  /\ ret' = result
  /\ special' = IF fail # "none" THEN special - 1 ELSE special
  /\ UNCHANGED <<cfg, muxHdr, initialDur, op, clock, keys, reads, resp>>

KeyFinishResult(fail, r) == KeyFinishWith(fail, r, KeyResult(r, fail))

\* the rest of the call: presegs refilled, the packet muxed and written
\* (lines 139-148, 75-89)
KeyFinish(fail) ==
  /\ wpc = "precreate"
  /\ fail # "alloc"
  /\ fail = "precreate" => cfg.Precreate > 0
  /\ KeyFinishResult(fail,
       PrecreateResult(Precreate(P, IF fail = "precreate" THEN 0 ELSE cfg.Precreate),
                       initialDur))

\* Close: the Store of the empty state, and then the releases
CloseStore ==
  /\ wpc = "idle"
  /\ Install(CloseState(P))
  /\ wpc' = "closing"
  /\ op' = "Close"
  /\ ret' = "nil"
  /\ UNCHANGED <<cfg, muxHdr, initialDur, clock, keys, special, reads, resp>>

CloseFree ==
  /\ wpc = "closing"
  /\ Install(CloseRelease(P))
  /\ wpc' = "closed"
  /\ UNCHANGED <<cfg, muxHdr, initialDur, op, ret, clock, keys, special, reads, resp>>

\* ------------------------------------------------------------ the reader

\* The basenames asked for: the playlist, the first, the current and the
\* newest segment ever made, and a name no segment has.
Requests ==
  {IndexName, <<"seg", 0>>}
  \cup {SegName(segs[i]) : i \in {1, current, Len(segs)} \cap DOMAIN segs}

\* ServeHTTP of a request for bn
ServeHTTP(bn) ==
  /\ reads > 0
  /\ reads' = reads - 1
  /\ resp' = [Respond(state, segs, bn) EXCEPT !.closed = (wpc = "closed")]
  /\ UNCHANGED <<pub, cfg, muxHdr, wpc, initialDur, op, ret, clock, keys, special>>

\* --------------------------------------------------------- specifications

InitWith(k, s, r) ==
  /\ segments = << >>
  /\ presegs = << >>
  /\ segNum = 0
  /\ seq = 0
  /\ dcn = FALSE
  /\ dcnseq = 0
  /\ state = NoState
  /\ current = Nil
  /\ muxHdr = FALSE
  /\ segs = << >>
  /\ wpc = "idle"
  /\ initialDur = 0
  /\ op = "none"
  /\ ret = "nil"
  /\ clock = 0
  /\ keys = k
  /\ special = s
  /\ reads = r
  /\ resp = NoResp

\* The writer alone, each call one step.
Init == cfg \in Configs /\ InitWith(MaxKey, MaxSpecial, 0)

Next ==
  \/ \E ok \in BOOLEAN : WriteHeader(ok)
  \/ \E io \in {"nil", "MuxError", "WriteError"} : WriteDelta(io)
  \/ \E gap \in Gaps, fail \in Fails : WriteKey(gap, fail)
  \/ Discontinuity
  \/ Close

Spec == Init /\ [][Next]_vars

\* The writer alone, where a caller that still has keyframe packets goes on
\* passing them to WritePacket for as long as the publisher is open; under the
\* options with which the window fills within MaxKey keyframes.
LiveConfigs == {c \in Configs : c.BufferLength # 0 /\ c.InitialDuration = 0}

InitLive == cfg \in LiveConfigs /\ InitWith(MaxKey, MaxLiveSpecial, 0)

SpecLive == InitLive /\ [][Next]_vars /\ WF_vars(WriteKey(ShortGap, "none"))

\* The writer step by step, with readers between its steps: the keyframes
\* ShortGap apart, under the options that trim the earliest.
ServeConfigs == {c \in Configs : c.BufferLength # 0}
ServeGaps == {ShortGap}

InitServe == cfg \in ServeConfigs /\ InitWith(MaxServeKey, MaxServeSpecial, MaxReads)

NextServe ==
  \/ \E ok \in BOOLEAN : WriteHeader(ok)
  \/ \E io \in {"nil", "MuxError", "WriteError"} : WriteDelta(io)
  \/ \E gap \in ServeGaps, ok \in BOOLEAN : KeyTrim(gap, ok)
  \/ KeyStore
  \/ \E fail \in Fails : KeyFinish(fail)
  \/ Discontinuity
  \/ CloseStore
  \/ CloseFree
  \/ \E bn \in Requests : ServeHTTP(bn)

SpecServe == InitServe /\ [][NextServe]_vars

\* ------------------------------------------------------------- the claims

\* the segments that are Active: activated, not finalized, not released
ActiveSegs ==
  {i \in DOMAIN segs : segs[i].activated /\ ~segs[i].final /\ ~segs[i].released}

\* C1: no segment of the snapshot a reader can load is Released.
C1_SnapshotHoldsNoReleased ==
  \A k \in DOMAIN state.segments : ~segs[state.segments[k]].released

\* C2: a request for the playlist made after Close has returned is answered
\* with 404.
C2_PlaylistNotFoundAfterClose ==
  (resp.closed /\ resp.bn = IndexName) => resp.code = "404"

\* C3: a request made after Close has returned for anything but the playlist,
\* the name of a segment of an earlier snapshot included, is answered with 404.
C3_SegmentNotFoundAfterClose ==
  (resp.closed /\ resp.code # "none" /\ resp.bn # IndexName) => resp.code = "404"

\* C3, reached: after Close, a request for the name of a segment that was
\* activated, and so stood in a stored snapshot, got 404.
C3_Witness ==
  /\ resp.closed
  /\ resp.code = "404"
  /\ \E i \in DOMAIN segs : segs[i].activated /\ SegName(segs[i]) = resp.bn

\* C4: a WritePacket that returns an error leaves segNum, seq, dcnseq, dcn,
\* segments, presegs, current and the stored snapshot as they were.
C4_ErrorLeavesPublisherUnchanged ==
  [][(op' = "WritePacket" /\ ret' \in Errors)
       => UNCHANGED <<segNum, seq, dcnseq, dcn, segments, presegs, current, state>>]_vars

\* C5: once a segment has been activated and until Close, current is set and
\* is the one Active segment, also after a WritePacket that returned an error.
C5_ExactlyOneActive ==
  (wpc = "idle" /\ \E i \in DOMAIN segs : segs[i].activated)
    => (current # Nil /\ ActiveSegs = {current})

\* C6 as stated: between the writer's calls the window is no longer than
\* keepSegments of the publisher's target duration of the moment.  Stated of
\* the runs in which no call has failed so far.
C6_WindowWithinCurrentKeep ==
  (wpc = "idle" /\ special = MaxSpecial)
    => Len(segments) <= KeepSegments(targetDuration(P))

\* C6: the window is no longer than keepSegments of the target duration the
\* latest activation estimated and trimmed with.
C6_WindowWithinKeep ==
  segments # << >> => Len(segments) <= KeepSegments(initialDur)

\* C6, reached: segments have been evicted and the window is as long as it
\* may be.
C6_Witness ==
  /\ seq > 0
  /\ Len(segments) = KeepSegments(initialDur)

\* the segments that were in the window and have left it
Evicted == {i \in DOMAIN segs : segs[i].activated /\ i \notin Range(segments)}

\* C7: until Close, seq is the number of segments evicted from the window and
\* dcnseq the number of those that carry the discontinuity flag.
C7_SeqCountsEvictions ==
  wpc = "idle" =>
    /\ seq = Cardinality(Evicted)
    /\ dcnseq = Cardinality({i \in Evicted : segs[i].dcn})

\* C7, reached: two segments were evicted, one of them flagged.
C7_Witness ==
  /\ wpc = "idle"
  /\ seq = 2
  /\ dcnseq = 1

\* the segments a step activates
Activated ==
  {i \in DOMAIN segs' :
     segs'[i].activated /\ (i \in DOMAIN segs => ~segs[i].activated)}

\* C8: Discontinuity sets the pending flag and touches no segment; an
\* activation gives the pending flag to the segment it activates and clears it;
\* no other step changes the pending flag, and no step changes the flag of a
\* segment activated before.
C8_DiscontinuityMarksNext ==
  [][LET new == Activated
     IN  /\ op' = "Discontinuity" => (segs' = segs /\ dcn')
         /\ \A i \in new : segs'[i].dcn = dcn /\ ~dcn'
         /\ (new = {} /\ op' # "Discontinuity") => dcn' = dcn
         /\ \A i \in DOMAIN segs :
              segs[i].activated => segs'[i].dcn = segs[i].dcn]_vars

\* C8, reached: of three segments activated one after the other only the
\* middle one is flagged, and no discontinuity is pending.
C8_Witness ==
  /\ ~dcn
  /\ Cardinality({i \in DOMAIN segs : segs[i].dcn}) = 1
  /\ \E i \in DOMAIN segs :
       /\ i - 1 \in DOMAIN segs /\ i + 1 \in DOMAIN segs
       /\ segs[i - 1].activated /\ segs[i].activated /\ segs[i + 1].activated
       /\ segs[i].dcn

\* C9: a step that activates a segment finalizes the segment that was Active,
\* with the new start less its own start for duration; a segment is finalized
\* only by a keyframe packet, at that packet's time; a finalized segment stays
\* finalized and keeps its duration.
C9_FinalizedDurationFixed ==
  [][LET new == Activated
         was == ActiveSegs
     IN  \A i \in DOMAIN segs :
           /\ segs[i].final => (segs'[i].final /\ segs'[i].dur = segs[i].dur)
           /\ (~segs[i].final /\ segs'[i].final) =>
                segs'[i].dur = clock' - segs[i].start
           /\ (i \in was /\ new # {}) =>
                /\ segs'[i].final
                /\ \A j \in new : segs'[i].dur = segs'[j].start - segs[i].start]_vars

\* C9, reached: a segment finalized after a long gap, followed by a finalized
\* segment, each as long as the way to the next start.
C9_Witness ==
  \E i \in DOMAIN segs :
    /\ i + 2 \in DOMAIN segs
    /\ segs[i].final /\ segs[i + 1].final /\ segs[i + 2].activated
    /\ segs[i].dur \in LongGaps
    /\ segs[i].dur = segs[i + 1].start - segs[i].start
    /\ segs[i + 1].dur = segs[i + 2].start - segs[i + 1].start

\* the playlist: the value of its one line tagged tag, and its EXTINF lines
TagValue(pl, tag) == pl[CHOOSE k \in DOMAIN pl : pl[k][1] = tag][2]
ExtInf(pl) == {k \in DOMAIN pl : pl[k][1] = "EXTINF"}

C11_MediaSequenceNeverDecreases ==
  [][(state.playlist # << >> /\ state'.playlist # << >>)
       => TagValue(state.playlist, "MEDIA-SEQUENCE")
            <= TagValue(state'.playlist, "MEDIA-SEQUENCE")]_vars

\* C11, reached: a stored playlist whose MEDIA-SEQUENCE has grown twice, the
\* second time as a flagged segment left the window.
C11_Witness ==
  /\ state.playlist # << >>
  /\ TagValue(state.playlist, "MEDIA-SEQUENCE") = 2
  /\ dcnseq = 1

\* the lines of a playlist that name a segment
NameLines(pl) == {k \in DOMAIN pl : pl[k][1] \in {"URI", "PREFETCH"}}

\* C12: every segment name in the playlist of the stored snapshot is found by
\* ServeHTTP in the segment list of that snapshot, and the segment the request
\* is delegated to has that name and is not Released.
C12_PlaylistNamesResolve ==
  \A k \in NameLines(state.playlist) :
    LET r == Respond(state, segs, <<"seg", state.playlist[k][2]>>)
    IN  /\ r.code = "segment"
        /\ ~r.gone
        /\ segs[r.seg].name = state.playlist[k][2]

\* C13 as stated: between the calls and before Close, seq + len(segments) is
\* the number of segments ever created.  Stated of the runs in which no call
\* has failed so far.
C13_SeqPlusWindowCountsCreated ==
  (wpc = "idle" /\ special = MaxSpecial) => seq + Len(segments) = Len(segs)

\* C13: between the calls and before Close, seq + len(segments) is the number
\* of segments ever activated, and with len(presegs) added the number of
\* segments ever created.
C13_SeqPlusWindowCountsActivated ==
  wpc = "idle" =>
    /\ seq + Len(segments) = Cardinality({i \in DOMAIN segs : segs[i].activated})
    /\ seq + Len(segments) + Len(presegs) = Len(segs)

\* C13, reached: segments have been evicted, others stand in the window and
\* others wait precreated.
C13_Witness ==
  /\ wpc = "idle"
  /\ seq > 0
  /\ presegs # << >>
  /\ Len(segs) = seq + Len(segments) + Len(presegs)

\* C14: the segNum values given to segments grow strictly in the order the
\* segments were created, on the keyframe path or precreated, and segNum itself
\* is above every value given so far; so no two segments have the same name.
C14_SegNumStrictlyIncreasing ==
  /\ \A i, j \in DOMAIN segs : i < j => segs[i].name < segs[j].name
  /\ \A i \in DOMAIN segs : segs[i].name < segNum

\* C14, reached: with a precreate queue, two precreated segments reused one
\* after the other and then, the refill having failed, a segment allocated on
\* the keyframe path.
C14_Witness ==
  /\ cfg.Precreate > 0
  /\ \E i \in DOMAIN segs :
       /\ i + 3 \in DOMAIN segs
       /\ segs[i].activated /\ segs[i + 1].activated /\ segs[i + 2].activated
       /\ segs[i + 1].name = segs[i].name + 2
       /\ segs[i + 2].name = segs[i + 1].name + 2
       /\ segs[i + 3].name = segs[i + 2].name + 1

\* C15: a WritePacket of a packet that is no keyframe, made while current is
\* unset, returns no error, whatever the muxer and the store would do, and
\* leaves segments, presegs, segNum, seq, dcnseq, the pending flag, the heap
\* and the stored snapshot as they were; and nothing has been stored while no
\* keyframe packet has come.
C15_PacketBeforeKeyframeDropped ==
  /\ [][(op' = "WritePacket" /\ keys' = keys /\ current = Nil)
          => /\ ret' = "nil"
             /\ UNCHANGED <<segments, presegs, segNum, seq, dcnseq, dcn, state,
                            current, segs>>]_vars
  /\ []((wpc = "idle" /\ keys = MaxKey) => state = NoState)

\* C15, reached: the header written, no keyframe yet, and a packet dropped.
C15_Witness ==
  /\ op = "WritePacket"
  /\ ret = "nil"
  /\ muxHdr
  /\ keys = MaxKey
  /\ current = Nil
  /\ state = NoState

\* the segment names a playlist lists, in its order, and the names of the
\* segments of a list that a playlist shows: the finalized ones, and with
\* prefetch all of them
ListedNames(pl) ==
  LET lines == SelectSeq(pl, LAMBDA l : l[1] \in {"URI", "PREFETCH"})
  IN  [k \in DOMAIN lines |-> lines[k][2]]
ShownNames(h, list, prefetch) ==
  LET shown == SelectSeq(list, LAMBDA i : h[i].final \/ prefetch)
  IN  [k \in DOMAIN shown |-> h[shown[k]].name]

\* C16: the stored snapshot changes only where the writer stores one (the
\* Store of newSegment, the Store of Close): no trim, pop, refill or release
\* changes its playlist or its list.  The snapshot newSegment stores lists
\* segments ++ presegs of that moment, and its playlist carries seq and dcnseq
\* of that moment and names exactly the segments of that list that are shown,
\* in order.
C16_SnapshotFormedAndImmutable ==
  [][/\ state' # state =>
          \/ wpc = "publish" /\ wpc' = "precreate"
          \/ wpc = "idle" /\ wpc' = "closing"
     /\ (wpc = "idle" /\ wpc' = "closing") => state' = EmptyState
     /\ (wpc = "publish" /\ wpc' = "precreate") =>
          /\ state'.stored
          /\ state'.segments = segments \o presegs
          /\ TagValue(state'.playlist, "MEDIA-SEQUENCE") = seq
          /\ \A k \in DOMAIN state'.playlist :
               state'.playlist[k][1] = "DISCONTINUITY-SEQUENCE"
                 => (dcnseq # 0 /\ state'.playlist[k][2] = dcnseq)
          /\ dcnseq # 0 =>
               \E k \in DOMAIN state'.playlist :
                 state'.playlist[k][1] = "DISCONTINUITY-SEQUENCE"
          /\ ListedNames(state'.playlist)
               = ShownNames(segs, state'.segments, cfg.Prefetch)]_vars

\* C16, reached: a snapshot stored with a precreated segment at the end of its
\* list has outlived the refill of the queue and the pop, activation and
\* append to the window of that segment.
C16_Witness ==
  /\ wpc = "publish"
  /\ state.stored
  /\ cfg.Precreate > 1
  /\ presegs # << >>
  /\ state.segments[Len(state.segments)] = current
  /\ segments = state.segments
  /\ Len(segments) > 2

\* C17: a WritePacket of a keyframe that finds presegs non-empty makes its
\* oldest segment current and Active, keeps the rest of the queue in order and
\* puts every segment it creates at the end of the queue; one that finds
\* presegs empty makes a segment created in this call current and Active,
\* unless that allocation fails; when the call returns no error presegs is as
\* long as Precreate; and no segment is in presegs and in segments at once, or
\* twice in either.
C17_PrecreateQueueDiscipline ==
  /\ [][(op' = "WritePacket" /\ keys' = keys - 1) =>
          LET made == (DOMAIN segs') \ (DOMAIN segs)
              rest == IF presegs = << >> THEN << >> ELSE Tail(presegs)
          IN  /\ presegs # << >> =>
                   /\ current' = Head(presegs)
                   /\ made \subseteq Range(presegs')
              /\ presegs = << >> =>
                   \/ current' = Nil /\ ret' = "AllocError" /\ made = {}
                   \/ current' \in made /\ current' \notin Range(presegs')
              /\ current' # Nil =>
                   /\ segs'[current'].activated /\ ~segs'[current'].final
                   /\ segments'[Len(segments')] = current'
              /\ Len(presegs') >= Len(rest)
              /\ SubSeq(presegs', 1, Len(rest)) = rest
              /\ \A k \in (Len(rest) + 1)..Len(presegs') : presegs'[k] \in made
              /\ ret' = "nil" => Len(presegs') = cfg.Precreate]_vars
  /\ [](/\ Range(segments) \cap Range(presegs) = {}
        /\ Cardinality(Range(segments)) = Len(segments)
        /\ Cardinality(Range(presegs)) = Len(presegs)
        /\ \A i \in Range(presegs) : ~segs[i].activated)

\* C17, reached: from a queue of two the older segment was taken and a new one
\* was put behind the other.
C17_Witness ==
  /\ op = "WritePacket" /\ ret = "nil"
  /\ Len(presegs) = 2
  /\ Len(segments) >= 2
  /\ current + 1 = presegs[1]
  /\ presegs[2] = Len(segs)

Min(a, b) == IF a < b THEN a ELSE b

C19_CurrentIsNewestAndLive ==
  current # Nil =>
    /\ segments # << >>
    /\ segments[Len(segments)] = current
    /\ ActiveSegs = {current}

\* C19, reached: the window was trimmed to its full length by the keyframe
\* that made current, other segments are Released, and the call wrote its
\* packet to current.
C19_Witness ==
  /\ current # Nil
  /\ op = "WritePacket" /\ ret = "nil"
  /\ seq > 1
  /\ Len(segments) = KeepSegments(initialDur)
  /\ segments[Len(segments)] = current
  /\ ~segs[current].released
  /\ \E i \in DOMAIN segs : segs[i].released

\* the smallest estimate targetDuration can return, and the longest the
\* window can be after a keyframe
MinEstimate ==
  IF cfg.InitialDuration = 0 THEN Second ELSE Min(cfg.InitialDuration, Second)
MaxWindow == KeepSegments(MinEstimate)

\* C20: a segment that is activated while at least as many keyframes are still
\* to come, beyond those that may fail, as the window can hold is in the end
\* out of the window and Released (the window holds MinKeepSegments or more,
\* so these are among the first MaxKey - MinKeepSegments segments created);
\* no segment is Released more than once; a
\* segment that has left the window is Released; Close releases every segment
\* held in segments or presegs and leaves both empty, so that once Close has
\* returned every segment ever created has been Released, once.
C20_EverySegmentReleasedOnce ==
  /\ \A i \in 1..(MaxKey - MinKeepSegments) :
       (i \in DOMAIN segs /\ segs[i].activated /\ keys - special >= MaxWindow)
         ~> (i \in DOMAIN segs /\ segs[i].released /\ i \notin Range(segments))
  /\ [](\A i \in DOMAIN segs :
          /\ segs[i].releases <= 1
          /\ segs[i].released <=> segs[i].releases = 1
          /\ (segs[i].activated /\ i \notin Range(segments)) => segs[i].released)
  /\ [][op' = "Close" =>
          \A i \in Range(segments) \cup Range(presegs) : segs'[i].released]_vars
  /\ [](wpc = "closed" =>
          /\ segments = << >> /\ presegs = << >>
          /\ \A i \in DOMAIN segs : segs[i].releases = 1)

\* C20, reached: Close has returned, a second time, after segments were
\* evicted while others stood in the window and in the queue.
C20_Witness ==
  /\ wpc = "closed"
  /\ op = "Close"
  /\ seq > 1
  /\ Len(segs) > seq + MinKeepSegments
  /\ \E i \in DOMAIN segs : ~segs[i].activated
  /\ \A i \in DOMAIN segs : segs[i].releases = 1

====
